---- MODULE Spec2Model ----
(***************************************************************************)
(* A model of the NDCA interpreter (src/src/interpreter/mod.rs): the       *)
(* program-counter driven state machine State::new / State::step /         *)
(* State::run, the typed expression evaluator, and the error values the    *)
(* evaluator produces.                                                     *)
(***************************************************************************)
EXTENDS Integers, Sequences, FiniteSets, TLC

(***************************************************************************)
(* LangInt: signed 64-bit integers.                                        *)
(*                                                                         *)
(* The model checker's own integers are 32 bits wide, so a LangInt is kept *)
(* as an exact integer in sign-magnitude form, the magnitude a sequence of *)
(* limbs, least significant first, with no leading zero limb.  Zero is     *)
(* [neg |-> FALSE, mag |-> <<>>].  All arithmetic below is exact; the      *)
(* 64-bit range is imposed only by the checked_* operations, as in Rust.   *)
(***************************************************************************)
LimbBase == 100 * 100

RECURSIVE MagNorm(_)
MagNorm(m) ==
    IF m = <<>> THEN <<>>
    ELSE IF m[Len(m)] = 0 THEN MagNorm(SubSeq(m, 1, Len(m) - 1))
    ELSE m

RECURSIVE MagCmpFrom(_, _, _)
MagCmpFrom(a, b, i) ==
    IF i = 0 THEN 0
    ELSE IF a[i] < b[i] THEN -1
    ELSE IF a[i] > b[i] THEN 1
    ELSE MagCmpFrom(a, b, i - 1)

MagCmp(a, b) ==
    IF Len(a) < Len(b) THEN -1
    ELSE IF Len(a) > Len(b) THEN 1
    ELSE MagCmpFrom(a, b, Len(a))

LimbsRest(m) == IF m = <<>> THEN <<>> ELSE Tail(m)

LimbsFirst(m) == IF m = <<>> THEN 0 ELSE Head(m)

RECURSIVE MagAddCarry(_, _, _)
MagAddCarry(a, b, c) ==
    IF a = <<>> /\ b = <<>> THEN (IF c = 0 THEN <<>> ELSE <<c>>)
    ELSE LET s == LimbsFirst(a) + LimbsFirst(b) + c
         IN  <<s % LimbBase>> \o MagAddCarry(LimbsRest(a), LimbsRest(b), s \div LimbBase)

MagAdd(a, b) == MagAddCarry(a, b, 0)

RECURSIVE MagSubBorrow(_, _, _)
MagSubBorrow(a, b, c) ==
    IF a = <<>> THEN <<>>
    ELSE LET d == LimbsFirst(a) - LimbsFirst(b) - c
         IN  IF d < 0
             THEN <<d + LimbBase>> \o MagSubBorrow(LimbsRest(a), LimbsRest(b), 1)
             ELSE <<d>> \o MagSubBorrow(LimbsRest(a), LimbsRest(b), 0)

\* a - b for magnitudes with a >= b
MagSub(a, b) == MagNorm(MagSubBorrow(a, b, 0))

RECURSIVE MagMulLimbCarry(_, _, _)
MagMulLimbCarry(a, d, c) ==
    IF a = <<>> THEN (IF c = 0 THEN <<>> ELSE <<c>>)
    ELSE LET p == Head(a) * d + c
         IN  <<p % LimbBase>> \o MagMulLimbCarry(Tail(a), d, p \div LimbBase)

MagMulLimb(a, d) == MagNorm(MagMulLimbCarry(a, d, 0))

MagShift(m) == IF m = <<>> THEN <<>> ELSE <<0>> \o m

RECURSIVE MagMul(_, _)
MagMul(a, b) ==
    IF b = <<>> THEN <<>>
    ELSE MagAdd(MagMulLimb(a, Head(b)), MagShift(MagMul(a, Tail(b))))

\* the largest limb d in lo..hi with b * d <= r (b * lo <= r is given)
RECURSIVE MagQuotLimb(_, _, _, _)
MagQuotLimb(r, b, lo, hi) ==
    IF lo = hi THEN lo
    ELSE LET mid == (lo + hi + 1) \div 2
         IN  IF MagCmp(MagMulLimb(b, mid), r) <= 0
             THEN MagQuotLimb(r, b, mid, hi)
             ELSE MagQuotLimb(r, b, lo, mid - 1)

\* schoolbook long division of a by b # 0, from limb i of a downwards;
\* q and r are the quotient and the remainder of the limbs above i
RECURSIVE MagDivModFrom(_, _, _, _, _)
MagDivModFrom(a, b, i, q, r) ==
    IF i = 0 THEN [q |-> MagNorm(q), r |-> r]
    ELSE LET r1 == MagNorm(<<a[i]>> \o r)
             Rest(d) == MagDivModFrom(a, b, i - 1, <<d>> \o q, MagSub(r1, MagMulLimb(b, d)))
         IN  Rest(MagQuotLimb(r1, b, 0, LimbBase - 1))

MagDivMod(a, b) == MagDivModFrom(a, b, Len(a), <<>>, <<>>)

BigMake(neg, mag) == [neg |-> (neg /\ mag # <<>>), mag |-> mag]

RECURSIVE MagOfNat(_)
MagOfNat(n) == IF n = 0 THEN <<>> ELSE <<n % LimbBase>> \o MagOfNat(n \div LimbBase)

\* the LangInt with the (small) value n
Big(n) == IF n < 0 THEN BigMake(TRUE, MagOfNat(-n)) ELSE BigMake(FALSE, MagOfNat(n))

BigZero == Big(0)

BigNeg(a) == BigMake(~a.neg, a.mag)

BigAdd(a, b) ==
    IF a.neg = b.neg THEN BigMake(a.neg, MagAdd(a.mag, b.mag))
    ELSE IF MagCmp(a.mag, b.mag) >= 0 THEN BigMake(a.neg, MagSub(a.mag, b.mag))
    ELSE BigMake(b.neg, MagSub(b.mag, a.mag))

BigSub(a, b) == BigAdd(a, BigNeg(b))

BigMul(a, b) == BigMake(a.neg # b.neg, MagMul(a.mag, b.mag))

\* quotient truncated toward zero, b # 0
BigDiv(a, b) == BigMake(a.neg # b.neg, MagDivMod(a.mag, b.mag).q)

\* remainder with the sign of the dividend, b # 0
BigRem(a, b) == BigMake(a.neg, MagDivMod(a.mag, b.mag).r)

\* -1, 0 or 1 as a is less than, equal to or greater than b
BigCmp(a, b) ==
    IF a.neg # b.neg THEN (IF a.neg THEN -1 ELSE 1)
    ELSE IF a.neg THEN MagCmp(b.mag, a.mag)
    ELSE MagCmp(a.mag, b.mag)

\* i64::MAX = 9223372036854775807 and i64::MIN = -9223372036854775808
I64Max == BigMake(FALSE, <<5807, 5477, 368, 3372, 922>>)

I64Min == BigMake(TRUE, <<5808, 5477, 368, 3372, 922>>)

InI64(a) == BigCmp(I64Min, a) <= 0 /\ BigCmp(a, I64Max) <= 0


(***************************************************************************)
(* Rust's checked integer operations on i64 (None on overflow, and for     *)
(* division and remainder also on a zero divisor).                         *)
(***************************************************************************)
Some(v) == [some |-> TRUE, v |-> v]

None == [some |-> FALSE]

InRange(a) == IF InI64(a) THEN Some(a) ELSE None

checked_neg(a) == InRange(BigNeg(a))

checked_add(a, b) == InRange(BigAdd(a, b))

\* checked_sub with its operands exchanged
checked_sub_Swapped(a, b) == InRange(BigSub(b, a))

checked_sub(a, b) == InRange(BigSub(a, b))

checked_mul(a, b) == InRange(BigMul(a, b))

checked_div(a, b) == IF b = BigZero THEN None ELSE InRange(BigDiv(a, b))

\* checked_rem giving the remainder 0 for i64::MIN % -1
checked_rem_MinByMinusOne(a, b) ==
    IF b = BigZero THEN None ELSE InRange(BigRem(a, b))

\* None as well when the division itself overflows (i64::MIN % -1)
checked_rem(a, b) ==
    IF b = BigZero \/ (a = I64Min /\ b = Big(-1)) THEN None ELSE InRange(BigRem(a, b))

(***************************************************************************)
(* Results and errors.  A LangResult is Ok(value) or Err(LangError); a     *)
(* LangError is a message kind with an optional span (errors.rs).          *)
(***************************************************************************)
Ok(v) == [ok |-> TRUE, val |-> v]

Err(e) == [ok |-> FALSE, err |-> e]

with_span(msg) == [msg |-> msg, has_span |-> TRUE]

without_span(msg) == [msg |-> msg, has_span |-> FALSE]

\* Option::ok_or_else: the value, or the error built by the closure
ok_or_else(opt, e) == IF opt.some THEN Ok(opt.v) ELSE Err(e)

CELL_STATE_COUNT == 100

(***************************************************************************)
(* Values (interpreter/value.rs): Int(i64) or CellState(u8).               *)
(***************************************************************************)
ValueInt(i) == [ty |-> "Int", i |-> i]

ValueCellState(c) == [ty |-> "CellState", c |-> c]

\* Value::from_type: the default value of a type, None for a type with no values
from_type(ty) ==
    IF ty = "Int" THEN Some(ValueInt(BigZero))
    ELSE IF ty = "CellState" THEN Some(ValueCellState(0))
    ELSE None

\* Value::ty
ty_of(v) == v.ty

\* Value::as_int / Value::as_cell_state: typed narrowing
as_int(v) ==
    IF v.ty = "Int" THEN Ok(v.i) ELSE Err(without_span("InternalError"))

as_cell_state(v) ==
    IF v.ty = "CellState" THEN Ok(v.c) ELSE Err(without_span("InternalError"))

\* `id_value as LangCellState` for id_value >= 0: the low 8 bits
as_LangCellState(a) == LimbsFirst(MagDivMod(a.mag, <<256>>).r)

(***************************************************************************)
(* Expressions (the ast module's IntExpr, CellStateExpr, CmpExpr, Expr).   *)
(***************************************************************************)
IntFnCall == [k |-> "FnCall"]

IntVar(name) == [k |-> "Var", var_name |-> name]

Literal(i) == [k |-> "Literal", i |-> i]

Op(lhs, op, rhs) == [k |-> "Op", lhs |-> lhs, op |-> op, rhs |-> rhs]

Neg(e) == [k |-> "Neg", x |-> e]

CmpExpr(initial, comparisons) == [initial |-> initial, comparisons |-> comparisons]

CmpInt(initial, comparisons) == [k |-> "CmpInt", cmp_expr |-> CmpExpr(initial, comparisons)]

CmpCellState(initial, comparisons) ==
    [k |-> "CmpCellState", cmp_expr |-> CmpExpr(initial, comparisons)]

CellFnCall == [k |-> "FnCall"]

CellVar(name) == [k |-> "Var", var_name |-> name]

FromId(e) == [k |-> "FromId", id_expr |-> e]

ExprInt(e) == [ty |-> "Int", e |-> e]

ExprCellState(e) == [ty |-> "CellState", e |-> e]

\* ast::MathOp; every other ast::Op is written "Other"
MathOps == {"Add", "Sub", "Mul", "Div", "Rem", "Exp"}

\* ast::Cmp and ast::EqCmp
Cmps == {"Eql", "Neq", "Lt", "Gt", "Lte", "Gte"}

EqCmps == {"Eql", "Neq"}

(***************************************************************************)
(* The expression evaluator.  `vs` is self.vars, the only part of the      *)
(* State that evaluation reads.                                            *)
(***************************************************************************)
\* the arithmetic arm without the check for division by zero
eval_math_op_NoZeroCheck(lhs, math_op, rhs) ==
    IF math_op = "Exp" THEN Err(with_span("Unimplemented"))
    ELSE ok_or_else(
            CASE math_op = "Add" -> checked_add(lhs, rhs)
              [] math_op = "Sub" -> checked_sub(lhs, rhs)
              [] math_op = "Mul" -> checked_mul(lhs, rhs)
              [] math_op = "Div" -> checked_div(lhs, rhs)
              [] math_op = "Rem" -> checked_rem(lhs, rhs),
            with_span("IntegerOverflow"))

\* the arithmetic arm of eval_int_expr, on the evaluated operands
eval_math_op(lhs, math_op, rhs) ==
    IF math_op \in {"Div", "Rem"} /\ rhs = BigZero
    THEN Err(with_span("DivideByZero"))
    ELSE IF math_op = "Exp" THEN Err(with_span("Unimplemented"))
    ELSE ok_or_else(
            CASE math_op = "Add" -> checked_add(lhs, rhs)
              [] math_op = "Sub" -> checked_sub(lhs, rhs)
              [] math_op = "Mul" -> checked_mul(lhs, rhs)
              [] math_op = "Div" -> checked_div(lhs, rhs)
              [] math_op = "Rem" -> checked_rem(lhs, rhs),
            with_span("IntegerOverflow"))

\* the closure eval_multi_comparison_any passes as eval_compare_fn
compare_any(cmp, x, y) ==
    CASE cmp = "Eql" -> BigCmp(x, y) = 0
      [] cmp = "Neq" -> BigCmp(x, y) # 0
      [] cmp = "Lt"  -> BigCmp(x, y) < 0
      [] cmp = "Gt"  -> BigCmp(x, y) > 0
      [] cmp = "Lte" -> BigCmp(x, y) <= 0
      [] cmp = "Gte" -> BigCmp(x, y) >= 0

\* the closure eval_multi_comparison_eq passes as eval_compare_fn
compare_eq(cmp, x, y) ==
    CASE cmp = "Eql" -> x = y
      [] cmp = "Neq" -> x # y

RECURSIVE eval_int_expr(_, _)
RECURSIVE eval_cell_state_expr(_, _)
RECURSIVE comparisons_loop(_, _, _, _, _)

\* eval_expr_fn as passed at the two call sites: Self::eval_int_expr for
\* CmpInt ("any"), Self::eval_cell_state_expr for CmpCellState ("eq")
eval_expr_fn(vs, which, e) ==
    IF which = "any" THEN eval_int_expr(vs, e) ELSE eval_cell_state_expr(vs, e)

eval_compare_fn(which, cmp, x, y) ==
    IF which = "any" THEN compare_any(cmp, x, y) ELSE compare_eq(cmp, x, y)

\* the loop without `lhs = rhs`: every comparison has the initial operand on
\* its left
comparisons_loop_KeepLhs(vs, which, comparisons, i, lhs) ==
    IF i > Len(comparisons) THEN Ok(Big(1))
    ELSE LET Body(rhs) ==
                 IF ~rhs.ok THEN rhs
                 ELSE IF ~eval_compare_fn(which, comparisons[i][1], lhs, rhs.val)
                 THEN Ok(Big(0))
                 ELSE comparisons_loop(vs, which, comparisons, i + 1, lhs)
         IN  Body(eval_expr_fn(vs, which, comparisons[i][2]))

\* the loop evaluating every remaining operand before it compares
comparisons_loop_Eager(vs, which, comparisons, i, lhs) ==
    LET faulty == { j \in i..Len(comparisons) :
                      ~eval_expr_fn(vs, which, comparisons[j][2]).ok }
        Body(rhs) ==
            IF ~eval_compare_fn(which, comparisons[i][1], lhs, rhs.val) THEN Ok(Big(0))
            ELSE comparisons_loop(vs, which, comparisons, i + 1, rhs.val)
    IN  IF i > Len(comparisons) THEN Ok(Big(1))
        ELSE IF faulty # {}
        THEN eval_expr_fn(vs, which,
                          comparisons[CHOOSE j \in faulty : \A m \in faulty : j <= m][2])
        ELSE Body(eval_expr_fn(vs, which, comparisons[i][2]))

\* the for loop of eval_multi_comparison_generic, from pair i on, with the
\* current left-hand value lhs
comparisons_loop(vs, which, comparisons, i, lhs) ==
    IF i > Len(comparisons) THEN Ok(Big(1))
    ELSE LET comparison == comparisons[i][1]
             expr2 == comparisons[i][2]
             Body(rhs) ==
                 IF ~rhs.ok THEN rhs
                 ELSE IF ~eval_compare_fn(which, comparison, lhs, rhs.val) THEN Ok(Big(0))
                 ELSE comparisons_loop(vs, which, comparisons, i + 1, rhs.val)
         IN  Body(eval_expr_fn(vs, which, expr2))

eval_multi_comparison_generic(vs, which, cmp_expr) ==
    LET Loop(lhs) ==
            IF ~lhs.ok THEN lhs
            ELSE comparisons_loop(vs, which, cmp_expr.comparisons, 1, lhs.val)
    IN  Loop(eval_expr_fn(vs, which, cmp_expr.initial))

eval_multi_comparison_eq(vs, cmp_expr) == eval_multi_comparison_generic(vs, "eq", cmp_expr)

eval_multi_comparison_any(vs, cmp_expr) == eval_multi_comparison_generic(vs, "any", cmp_expr)

eval_int_expr(vs, expression) ==
    CASE expression.k = "FnCall" -> Err(with_span("Unimplemented"))
      [] expression.k = "Var" -> as_int(vs[expression.var_name])
      [] expression.k = "Literal" -> Ok(expression.i)
      [] expression.k = "Op" ->
            LET Apply(lhs, rhs) ==
                    IF ~lhs.ok THEN lhs
                    ELSE IF ~rhs.ok THEN rhs
                    ELSE IF expression.op \in MathOps
                    THEN eval_math_op(lhs.val, expression.op, rhs.val)
                    ELSE Err(with_span("Unimplemented"))
            IN  Apply(eval_int_expr(vs, expression.lhs), eval_int_expr(vs, expression.rhs))
      [] expression.k = "Neg" ->
            LET Negate(x) ==
                    IF ~x.ok THEN x
                    ELSE ok_or_else(checked_neg(x.val), with_span("IntegerOverflow"))
            IN  Negate(eval_int_expr(vs, expression.x))
      [] expression.k = "CmpInt" -> eval_multi_comparison_any(vs, expression.cmp_expr)
      [] expression.k = "CmpCellState" -> eval_multi_comparison_eq(vs, expression.cmp_expr)

\* eval_cell_state_expr with `<=` for `<` in the range check of FromId
eval_cell_state_expr_InclusiveBound(vs, expression) ==
    CASE expression.k = "FnCall" -> Err(with_span("Unimplemented"))
      [] expression.k = "Var" -> as_cell_state(vs[expression.var_name])
      [] expression.k = "FromId" ->
            LET Convert(id_value) ==
                    IF ~id_value.ok THEN id_value
                    ELSE IF BigCmp(id_value.val, BigZero) >= 0
                            /\ BigCmp(id_value.val, Big(CELL_STATE_COUNT)) <= 0
                    THEN Ok(as_LangCellState(id_value.val))
                    ELSE Err(with_span("CellStateOutOfRange"))
            IN  Convert(eval_int_expr(vs, expression.id_expr))

\* eval_cell_state_expr with no upper bound in the range check of FromId
eval_cell_state_expr_NoUpperBound(vs, expression) ==
    CASE expression.k = "FnCall" -> Err(with_span("Unimplemented"))
      [] expression.k = "Var" -> as_cell_state(vs[expression.var_name])
      [] expression.k = "FromId" ->
            LET Convert(id_value) ==
                    IF ~id_value.ok THEN id_value
                    ELSE IF BigCmp(id_value.val, BigZero) >= 0
                    THEN Ok(as_LangCellState(id_value.val))
                    ELSE Err(with_span("CellStateOutOfRange"))
            IN  Convert(eval_int_expr(vs, expression.id_expr))

eval_cell_state_expr(vs, expression) ==
    CASE expression.k = "FnCall" -> Err(with_span("Unimplemented"))
      [] expression.k = "Var" -> as_cell_state(vs[expression.var_name])
      [] expression.k = "FromId" ->
            LET Convert(id_value) ==
                    IF ~id_value.ok THEN id_value
                    ELSE IF BigCmp(id_value.val, BigZero) >= 0
                            /\ BigCmp(id_value.val, Big(CELL_STATE_COUNT)) < 0
                    THEN Ok(as_LangCellState(id_value.val))
                    ELSE Err(with_span("CellStateOutOfRange"))
            IN  Convert(eval_int_expr(vs, expression.id_expr))

(***************************************************************************)
(* Statements (the ast module's Statement) and functions.  A block is a    *)
(* sequence of statements; instruction indices are 0-based as in the       *)
(* source, so the instruction at index p is the (p + 1)-th of the block.   *)
(***************************************************************************)
SetVar(name, e) == [k |-> "SetVar", var_name |-> name, value_expr |-> e]

If(cond, if_true, if_false) ==
    [k |-> "If", cond_expr |-> cond, if_true |-> if_true, if_false |-> if_false]

Return(e) == [k |-> "Return", return_expr |-> e]

End == [k |-> "End"]

Goto(idx) == [k |-> "Goto", idx |-> idx]

Function(statements, fvars, fn_type) ==
    [statements |-> statements, vars |-> fvars, fn_type |-> fn_type]

(***************************************************************************)
(* ast::flatten_block.  Depth-first: the nested blocks of a statement are  *)
(* flattened first, then moved to the end of the top-level sequence, and   *)
(* the place of each is taken by one Goto to (index of its first moved     *)
(* statement) - 1.  An empty nested block stays empty.                     *)
(*                                                                         *)
(* `base` is the length of the top-level block before anything was moved   *)
(* and `moved` the statements moved so far, so the next statement moved    *)
(* gets index base + Len(moved).                                           *)
(***************************************************************************)
RECURSIVE flatten_from(_, _, _, _)
RECURSIVE relocate(_, _, _)

relocate(nested, base, moved) ==
    IF nested = <<>> THEN [block |-> <<>>, moved |-> moved]
    ELSE LET r == flatten_from(nested, 1, base, moved)
             start == base + Len(r.moved)
         IN  [block |-> <<Goto(start - 1)>>, moved |-> r.moved \o r.block]

flatten_from(block, i, base, moved) ==
    IF i > Len(block) THEN [block |-> block, moved |-> moved]
    ELSE IF block[i].k # "If" THEN flatten_from(block, i + 1, base, moved)
    ELSE LET t == relocate(block[i].if_true, base, moved)
             f == relocate(block[i].if_false, base, t.moved)
             s == If(block[i].cond_expr, t.block, f.block)
         IN  flatten_from([block EXCEPT ![i] = s], i + 1, base, f.moved)

flatten_block(block) ==
    LET r == flatten_from(block, 1, Len(block), <<>>)
    IN  r.block \o r.moved

(***************************************************************************)
(* The interpreter State and State::new.                                   *)
(***************************************************************************)
State(ins, ip, vs, fn_type) ==
    [instructions |-> ins, instruction_pointer |-> ip, vars |-> vs,
     function_type |-> fn_type]

\* State::new without the call of ast::flatten_block
new_NoFlatten(fun) ==
    IF \E v \in DOMAIN fun.vars : ~from_type(fun.vars[v]).some
    THEN Err(without_span("InternalError"))
    ELSE Ok(State(fun.statements, 0,
                  [v \in DOMAIN fun.vars |-> from_type(fun.vars[v]).v],
                  fun.fn_type))

new(fun) ==
    LET statements == flatten_block(fun.statements)
    IN  IF \E v \in DOMAIN fun.vars : ~from_type(fun.vars[v]).some
        THEN Err(without_span("InternalError"))
        ELSE Ok(State(statements, 0,
                      [v \in DOMAIN fun.vars |-> from_type(fun.vars[v]).v],
                      fun.fn_type))

(***************************************************************************)
(* State::step.  An outcome is the State after the step together with the  *)
(* LangResult<ExecuteResult> the step returns, or the panic that ends it;  *)
(* step gives the set of the outcomes the builds of the program produce.   *)
(***************************************************************************)
Continue == [k |-> "Continue"]

ExecuteResult_Return(value) == [k |-> "Return", value |-> value]

\* ExecuteResult::return_value
return_value(r) == IF r.k = "Continue" THEN None ELSE r.value

\* goto_block without the `None => ()` arm: an empty block is malformed
goto_block_EmptyIsError(ip, block) ==
    IF block # <<>> /\ block[1].k = "Goto" THEN Ok(block[1].idx)
    ELSE Err(without_span("InternalError"))

\* the new instruction pointer, or the fault
goto_block(ip, block) ==
    IF block = <<>> THEN Ok(ip)
    ELSE IF block[1].k = "Goto" THEN Ok(block[1].idx)
    ELSE Err(without_span("InternalError"))

\* usize::MAX, 2^64 - 1.  A value of type usize is written as the residue
\* modulo 2^64 that is nearest to 0: every index of the model is itself, and
\* usize::MAX, which the integers of the model checker cannot hold, is -1.
usize_MAX == -1

\* a < b on usize: a negative residue is a value of 2^63 or more
usize_lt(a, b) == IF (a < 0) = (b < 0) THEN a < b ELSE b < 0

\* a panic of the thread: the call does not return
Panic(msg) == [ok |-> FALSE, panic |-> msg]

IsPanic(r) == "panic" \in DOMAIN r

Stepped(self, res) == [self |-> self, res |-> res]

\* Advance without `self.instruction_pointer += 1`
Advance_NoIncrement(self) == {Stepped(self, Ok(Continue))}

\* the tail of step after a non-terminal instruction: the pointer advances.
\* The results are the outcomes of `self.instruction_pointer += 1` on usize:
\* at usize::MAX the addition overflows, which wraps to 0 in a build without
\* overflow checks and panics in a build with them.
Advance(self) ==
    IF self.instruction_pointer = usize_MAX
    THEN { Stepped([self EXCEPT !.instruction_pointer = 0], Ok(Continue)),
           Stepped(self, Panic("attempt to add with overflow")) }
    ELSE { Stepped([self EXCEPT !.instruction_pointer = self.instruction_pointer + 1],
                   Ok(Continue)) }

\* the SetVar arm with a fault of the expression reported after the pointer
\* has advanced
step_SetVar_AdvanceOnFault(self, instruction) ==
    LET var_name == instruction.var_name
        value_expr == instruction.value_expr
        Store(var_value) ==
            IF ~var_value.ok
            THEN { Stepped(s.self, var_value) : s \in Advance(self) }
            ELSE Advance([self EXCEPT !.vars[var_name] = var_value.val])
        Wrap(r, ty) ==
            IF ~r.ok THEN r
            ELSE IF ty = "Int" THEN Ok(ValueInt(r.val))
            ELSE Ok(ValueCellState(r.val))
    IN  IF ty_of(self.vars[var_name]) # value_expr.ty
        THEN {Stepped(self, Err(without_span("InternalError")))}
        ELSE IF value_expr.ty = "Int"
        THEN Store(Wrap(eval_int_expr(self.vars, value_expr.e), "Int"))
        ELSE Store(Wrap(eval_cell_state_expr(self.vars, value_expr.e), "CellState"))

\* the SetVar arm storing the value and putting every other variable back to
\* the default of its type
step_SetVar_ResetOthers(self, instruction) ==
    LET var_name == instruction.var_name
        value_expr == instruction.value_expr
        Store(var_value) ==
            IF ~var_value.ok THEN {Stepped(self, var_value)}
            ELSE Advance([self EXCEPT !.vars =
                     [v \in DOMAIN self.vars |->
                         IF v = var_name THEN var_value.val
                         ELSE from_type(ty_of(self.vars[v])).v]])
        Wrap(r, ty) ==
            IF ~r.ok THEN r
            ELSE IF ty = "Int" THEN Ok(ValueInt(r.val))
            ELSE Ok(ValueCellState(r.val))
    IN  IF ty_of(self.vars[var_name]) # value_expr.ty
        THEN {Stepped(self, Err(without_span("InternalError")))}
        ELSE IF value_expr.ty = "Int"
        THEN Store(Wrap(eval_int_expr(self.vars, value_expr.e), "Int"))
        ELSE Store(Wrap(eval_cell_state_expr(self.vars, value_expr.e), "CellState"))

\* the SetVar arm without the check of the variable's type against the type
\* of the expression
step_SetVar_NoTypeCheck(self, instruction) ==
    LET var_name == instruction.var_name
        value_expr == instruction.value_expr
        Store(var_value) ==
            IF ~var_value.ok THEN {Stepped(self, var_value)}
            ELSE Advance([self EXCEPT !.vars[var_name] = var_value.val])
        Wrap(r, ty) ==
            IF ~r.ok THEN r
            ELSE IF ty = "Int" THEN Ok(ValueInt(r.val))
            ELSE Ok(ValueCellState(r.val))
    IN  IF value_expr.ty = "Int"
        THEN Store(Wrap(eval_int_expr(self.vars, value_expr.e), "Int"))
        ELSE Store(Wrap(eval_cell_state_expr(self.vars, value_expr.e), "CellState"))

step_SetVar(self, instruction) ==
    LET var_name == instruction.var_name
        value_expr == instruction.value_expr
    IN  IF ty_of(self.vars[var_name]) # value_expr.ty
        THEN {Stepped(self, Err(without_span("InternalError")))}
        ELSE LET Store(var_value) ==
                     IF ~var_value.ok THEN {Stepped(self, var_value)}
                     ELSE Advance([self EXCEPT !.vars[var_name] = var_value.val])
                 Wrap(r, ty) ==
                     IF ~r.ok THEN r
                     ELSE IF ty = "Int" THEN Ok(ValueInt(r.val))
                     ELSE Ok(ValueCellState(r.val))
             IN  IF value_expr.ty = "Int"
                 THEN Store(Wrap(eval_int_expr(self.vars, value_expr.e), "Int"))
                 ELSE Store(Wrap(eval_cell_state_expr(self.vars, value_expr.e),
                                 "CellState"))

step_If(self, instruction) ==
    LET Jump(g) ==
            IF ~g.ok THEN {Stepped(self, g)}
            ELSE Advance([self EXCEPT !.instruction_pointer = g.val])
        Branch(c) ==
            IF ~c.ok THEN {Stepped(self, c)}
            ELSE LET condition_value == c.val # BigZero
                     block == IF condition_value THEN instruction.if_true
                              ELSE instruction.if_false
                 IN  Jump(goto_block(self.instruction_pointer, block))
    IN  Branch(eval_int_expr(self.vars, instruction.cond_expr))

\* the Return arm without the match on self.function_type
step_Return_AnyFunctionType(self, instruction) ==
    LET return_expr == instruction.return_expr
        Finish(r) ==
            IF ~r.ok THEN {Stepped(self, r)}
            ELSE {Stepped(self, Ok(ExecuteResult_Return(Some(ValueCellState(r.val)))))}
    IN  IF return_expr.ty # "CellState"
        THEN {Stepped(self, Err(without_span("InternalError")))}
        ELSE Finish(eval_cell_state_expr(self.vars, return_expr.e))

step_Return(self, instruction) ==
    LET return_expr == instruction.return_expr
    IN  IF self.function_type = "Transition"
        THEN IF return_expr.ty # "CellState"
             THEN {Stepped(self, Err(without_span("InternalError")))}
             ELSE LET Finish(r) ==
                          IF ~r.ok THEN {Stepped(self, r)}
                          ELSE {Stepped(self,
                                   Ok(ExecuteResult_Return(Some(ValueCellState(r.val)))))}
                  IN  Finish(eval_cell_state_expr(self.vars, return_expr.e))
        ELSE {Stepped(self, Err(with_span("Unimplemented")))}

\* self.instructions.get(index): the instruction at index, counted from 0,
\* if there is one
get(block, index) ==
    IF usize_lt(index, Len(block)) THEN Some(block[index + 1]) ELSE None

\* step without the check of the pointer against the length: past the last
\* instruction the pointer moves on and execution continues
step_PastEndContinues(self) ==
    IF get(self.instructions, self.instruction_pointer).some
    THEN LET instruction == get(self.instructions, self.instruction_pointer).v
         IN  CASE instruction.k = "SetVar" -> step_SetVar(self, instruction)
               [] instruction.k = "If" -> step_If(self, instruction)
               [] instruction.k = "Return" -> step_Return(self, instruction)
               [] instruction.k = "End" -> {Stepped(self, Ok(ExecuteResult_Return(None)))}
               [] instruction.k = "Goto" ->
                     Advance([self EXCEPT !.instruction_pointer = instruction.idx])
    ELSE Advance(self)

step(self) ==
    IF get(self.instructions, self.instruction_pointer).some
    THEN LET instruction == get(self.instructions, self.instruction_pointer).v
         IN  CASE instruction.k = "SetVar" -> step_SetVar(self, instruction)
               [] instruction.k = "If" -> step_If(self, instruction)
               [] instruction.k = "Return" -> step_Return(self, instruction)
               [] instruction.k = "End" -> {Stepped(self, Ok(ExecuteResult_Return(None)))}
               [] instruction.k = "Goto" ->
                     Advance([self EXCEPT !.instruction_pointer = instruction.idx])
    ELSE {Stepped(self, Ok(ExecuteResult_Return(None)))}

(***************************************************************************)
(* Rendering of an error against the source text: LangError::with_source   *)
(* and the Display of LangErrorWithSource.  A source text is a sequence of *)
(* characters, a Span a half-open range of character indices counted from  *)
(* 0, a TextPoint a line and a column counted from 1.  The rendered text is *)
(* a sequence of characters ended by the message, which stands for its own *)
(* Display.                                                                *)
(***************************************************************************)
Span(start, end) == [start |-> start, end |-> end]

TextPoint(line, column) == [line |-> line, column |-> column]

\* the TextPoint of the character index idx of src
textpoint(src, idx) ==
    LET newlines == { i \in 1..idx : src[i] = "\n" }
        last == IF newlines = {} THEN 0
                ELSE CHOOSE i \in newlines : \A j \in newlines : j <= i
    IN  TextPoint(Cardinality(newlines) + 1, idx - last + 1)

\* Span::textpoints
textpoints(span, src) == <<textpoint(src, span.start), textpoint(src, span.end)>>

\* str::lines: a line ends at "\n" or at "\r\n", neither of which is part
\* of it; a "\r" that no "\n" follows stays in its line; a final line ending
\* starts no empty line
RECURSIVE lines(_)
lines(src) ==
    IF src = <<>> THEN <<>>
    ELSE LET ends == { i \in 1..Len(src) : src[i] = "\n" } \cup {Len(src) + 1}
             e == CHOOSE i \in ends : \A j \in ends : i <= j
             last == IF e <= Len(src) /\ e > 1 /\ src[e - 1] = "\r" THEN e - 2
                     ELSE e - 1
         IN  <<SubSeq(src, 1, last)>> \o lines(SubSeq(src, e + 1, Len(src)))

\* a LangError that carries the Span given to LangErrorMsg::with_span
LangError(msg, span) == [msg |-> msg, has_span |-> TRUE, span |-> span]

LangErrorWithSource(source_line, span, msg) ==
    [source_line |-> source_line, span |-> span, msg |-> msg]

\* LangError::with_source
with_source(self, src) ==
    IF self.has_span
    THEN LET tps == textpoints(self.span, src)
             start_tp == tps[1]
             end_tp == tps[2]
             start == start_tp.column
             end == IF start_tp.line = end_tp.line /\ end_tp.column > start_tp.column
                    THEN end_tp.column ELSE start
             ls == lines(src)
         IN  LangErrorWithSource(
                 IF start_tp.line <= Len(ls) THEN Some(ls[start_tp.line]) ELSE None,
                 Some(<<start, end>>), self.msg)
    ELSE LangErrorWithSource(None, None, self.msg)

\* what a loop `for _ in 0..n` or `for _ in start..end` writes: nothing when
\* the range is empty
Repeat(ch, n) == [i \in 1..n |-> ch]

\* fmt has written text and returned Ok(())
Written(text) == [text |-> text, then |-> Ok("()")]

\* fmt has written text and panicked
Panicked(text, msg) == [text |-> text, then |-> Panic(msg)]

\* text has been written, and count times ch and then what rest holds are
\* still to be written: count is a number of 2^63 or more
Padding(text, ch, count, rest) ==
    [text |-> text, then |-> [ch |-> ch, count |-> count, rest |-> rest]]

\* the number of values of the usize range start..end
range_len(start, end) == IF usize_lt(start, end) THEN end - start ELSE 0

\* a loop that writes ch once for each value of a range of n values, followed
\* by what `next` holds
Run(ch, n, next) ==
    IF n >= 0 THEN [next EXCEPT !.text = Repeat(ch, n) \o @]
    ELSE Padding(<<>>, ch, n, next)

\* <LangErrorWithSource as Display>::fmt.  The results are the outcomes of
\* `start - 1` on usize: at start = 0 the subtraction overflows, which panics
\* in a build with overflow checks and wraps to usize::MAX, the number of
\* spaces then written, in a build without them.
fmt(self) ==
    IF self.source_line.some /\ self.span.some
    THEN LET start == self.span.v[1]
             end == self.span.v[2]
             line == self.source_line.v \o <<"\n">>
             carets == Run("^", range_len(start, end),
                           Written(Repeat(" ", 3) \o <<self.msg>>))
             After(written) == [written EXCEPT !.text = line \o @]
         IN  IF start = 0
             THEN { Panicked(line, "attempt to subtract with overflow"),
                    After(Run(" ", usize_MAX, carets)) }
             ELSE { After(Run(" ", start - 1, carets)) }
    ELSE { Written(<<self.msg>>) }

(***************************************************************************)
(* run_fn: what it makes of the LangResult<Option<Value>> that             *)
(* State::new(function)?.run() has produced.                               *)
(***************************************************************************)
\* run_fn giving the default cell state when run has produced no value
run_fn_DefaultOnNone(ret) ==
    IF ~ret.ok THEN ret
    ELSE IF ~ret.val.some THEN Ok(0)
    ELSE IF ret.val.v.ty = "CellState" THEN Ok(ret.val.v.c)
    ELSE Err(without_span("InternalError"))

run_fn(ret) ==
    IF ~ret.ok THEN ret
    ELSE IF ret.val.some /\ ret.val.v.ty = "CellState" THEN Ok(ret.val.v.c)
    ELSE Err(without_span("InternalError"))

(***************************************************************************)
(* Inputs.  The functions given to the interpreter are built from a pool   *)
(* of statements over two declared variables, x : Int and c : CellState.   *)
(***************************************************************************)
MaxBodyLen == 2

MaxGoto == 2

MaxExtraSteps == 2

MaxChain == 2

L(n) == Literal(Big(n))

DivByZero == Op(L(1), "Div", L(0))

XIsZero == CmpInt(IntVar("x"), << <<"Eql", L(0)>> >>)

IncX == SetVar("x", ExprInt(Op(IntVar("x"), "Add", L(1))))

SetC == SetVar("c", ExprCellState(FromId(Op(IntVar("x"), "Add", L(98)))))

ReturnX == Return(ExprCellState(FromId(Op(IntVar("x"), "Sub", L(1)))))

SetVars ==
    { IncX, SetC,
      SetVar("x", ExprInt(DivByZero)),
      SetVar("x", ExprCellState(FromId(L(1)))) }

Ifs ==
    { If(XIsZero, <<IncX>>, <<ReturnX>>),
      If(XIsZero, <<>>, <<End>>),
      If(XIsZero, <<SetC>>, <<>>),
      If(L(0), <<>>, <<>>),
      If(DivByZero, <<IncX>>, <<>>),
      If(XIsZero, <<If(XIsZero, <<IncX>>, <<SetC, End>>), SetC>>, <<IncX, ReturnX>>) }

Returns == { ReturnX, Return(ExprInt(IntVar("x"))) }

Gotos == { Goto(idx) : idx \in 0..MaxGoto }

Statements == SetVars \cup Ifs \cup Returns \cup {End} \cup Gotos

Blocks == UNION { [1..n -> Statements] : n \in 0..MaxBodyLen }

DeclaredVars == [x |-> "Int", c |-> "CellState"]

\* 3 * 99 % 2 == 1
ScenarioCond == CmpInt(Op(Op(L(3), "Mul", L(99)), "Rem", L(2)), << <<"Eql", L(1)>> >>)

\* #(10 / 3 * 3)
ScenarioId == FromId(Op(Op(L(10), "Div", L(3)), "Mul", L(3)))

\* set x = 3, set y = 2 - 10, set y -= 3
ScenarioPrefix ==
    << SetVar("x", ExprInt(L(3))),
       SetVar("y", ExprInt(Op(L(2), "Sub", L(10)))),
       SetVar("y", ExprInt(Op(IntVar("y"), "Sub", L(3)))) >>

\* the transition function of the program in main: z is a cell state and
\* `become z` stands before the if / else if / else
MainFunction ==
    Function(
        ScenarioPrefix \o
        << SetVar("z", ExprCellState(FromId(Op(Neg(IntVar("y")), "Div", IntVar("x"))))),
           Return(ExprCellState(CellVar("z"))),
           If(ScenarioCond,
              << Return(ExprCellState(ScenarioId)) >>,
              << If(CmpInt(Op(L(1), "Add", L(2)), << <<"Lt", L(2)>> >>),
                    << Return(ExprCellState(FromId(L(12)))) >>,
                    << Return(ExprCellState(FromId(L(98)))) >>) >>),
           Return(ExprCellState(FromId(L(2)))) >>,
        [x |-> "Int", y |-> "Int", z |-> "CellState"], "Transition")

\* the same program with an integer z, without `become z`, the else arms and
\* the trailing become
ScenarioFunction ==
    Function(
        ScenarioPrefix \o
        << SetVar("z", ExprInt(Op(Neg(IntVar("y")), "Div", IntVar("x")))),
           If(ScenarioCond, << Return(ExprCellState(ScenarioId)) >>, <<>>) >>,
        [x |-> "Int", y |-> "Int", z |-> "Int"], "Transition")

\* if 1 { if 1 { set c = #(x + 98) } }
NestedIfFunction ==
    Function(<< If(L(1), << If(L(1), <<SetC>>, <<>>) >>, <<>>) >>,
             DeclaredVars, "Transition")

\* set x += 1, set c = #(x + 98), twice: the second cell state is out of range
RangeFunction == Function(<<IncX, SetC, IncX, SetC>>, DeclaredVars, "Transition")

Functions ==
    { Function(b, DeclaredVars, t) : b \in Blocks, t \in {"Transition", "Helper"} }
    \cup { Function(<<IncX>>, [x |-> "Int", c |-> "Void"], "Transition") }
    \cup { MainFunction, ScenarioFunction, NestedIfFunction, RangeFunction }

(***************************************************************************)
(* Instruction sequences, flat already, with a jump whose stored target is *)
(* usize::MAX: the target no index minus one equals, at which the          *)
(* increment of the pointer overflows; and two without, for a State whose  *)
(* pointer is usize::MAX from the start.                                   *)
(***************************************************************************)
OverflowInstructions ==
    { <<>>,
      <<Goto(0)>>,
      <<Goto(usize_MAX)>>,
      <<If(L(1), <<Goto(usize_MAX)>>, <<>>)>>,
      <<If(XIsZero, <<>>, <<Goto(usize_MAX)>>), IncX, Goto(usize_MAX)>>,
      <<IncX, If(XIsZero, <<Goto(usize_MAX)>>, <<Goto(0)>>), SetC, ReturnX>> }

(***************************************************************************)
(* Inputs of the expression evaluator taken alone: an expression and the   *)
(* variable store it is evaluated in.                                      *)
(***************************************************************************)
IntLiterals ==
    { Literal(I64Min), Literal(BigAdd(I64Min, Big(1))), L(-2), L(-1), L(0), L(1), L(2),
      L(3), L(7), Literal(BigSub(I64Max, Big(1))), Literal(I64Max) }

AllOps == MathOps \cup {"Other"}

IdLiterals ==
    { Literal(I64Min), L(-1), L(0), L(1), L(CELL_STATE_COUNT - 1), L(CELL_STATE_COUNT),
      L(CELL_STATE_COUNT + 1), L(255), L(256), L(257), Literal(I64Max) }

IntOperands == { L(1), L(2), L(3), DivByZero }

CellOperands == { FromId(L(0)), FromId(L(1)), CellVar("c"), FromId(L(CELL_STATE_COUNT)) }

PairSeqs(cmps, operands) ==
    UNION { [1..n -> cmps \X operands] : n \in 0..MaxChain }

IntExprs ==
    IntLiterals
    \cup { IntVar("x"), IntVar("c"), IntFnCall }
    \cup { Op(a, op, b) : a \in IntLiterals, op \in AllOps, b \in IntLiterals }
    \cup { Op(DivByZero, "Div", L(0)), Op(Neg(Literal(I64Min)), "Rem", L(0)),
           Op(Op(L(3), "Mul", L(99)), "Rem", L(2)),
           Op(Neg(IntVar("x")), "Div", IntVar("x")) }
    \cup { Neg(a) : a \in IntLiterals }
    \cup { Neg(Neg(Literal(I64Min))), Neg(DivByZero) }
    \cup { CmpInt(a, ps) : a \in IntOperands, ps \in PairSeqs(Cmps, IntOperands) }
    \cup { CmpCellState(a, ps) : a \in CellOperands, ps \in PairSeqs(EqCmps, CellOperands) }

CellStateExprs ==
    { CellVar("c"), CellVar("x"), CellFnCall }
    \cup { FromId(a) : a \in IdLiterals }
    \cup { FromId(DivByZero), FromId(Op(Op(L(10), "Div", L(3)), "Mul", L(3))) }

EvalVars == [x |-> ValueInt(Big(3)), c |-> ValueCellState(1)]

EvalInputs ==
    { [vars |-> EvalVars, expr |-> ExprInt(e)] : e \in IntExprs }
    \cup { [vars |-> EvalVars, expr |-> ExprCellState(e)] : e \in CellStateExprs }

(***************************************************************************)
(* Inputs of the rendering taken alone: a source text and an error whose   *)
(* span, if it has one, lies in that text.                                 *)
(***************************************************************************)
MaxSrcLen == 4

SourceChars == {"a", "\r", "\n"}

Sources == UNION { [1..n -> SourceChars] : n \in 0..MaxSrcLen }

RenderInputs ==
    { [error |-> LangError("DivideByZero", Span(a, b)), src |-> src] :
        <<src, a, b>> \in { t \in Sources \X (0..MaxSrcLen) \X (0..MaxSrcLen) :
                              t[2] <= t[3] /\ t[3] <= Len(t[1]) } }
    \cup { [error |-> without_span("InternalError"), src |-> src] : src \in Sources }

(***************************************************************************)
(* Inputs of Display taken alone: a LangErrorWithSource, whose fields are  *)
(* public, with a source line and a span of any two columns, 0 and         *)
(* usize::MAX included.                                                    *)
(***************************************************************************)
MaxColumn == 3

Columns == 0..MaxColumn \cup {usize_MAX}

DisplayInputs ==
    { [shown |-> LangErrorWithSource(line, span, "Unimplemented")] :
        line \in {None} \cup { Some(src) : src \in [1..2 -> {"a", "b"}] },
        span \in {None} \cup { Some(<<start, end>>) :
                                  start \in Columns, end \in Columns } }

(***************************************************************************)
(* The state machine.                                                      *)
(***************************************************************************)
VARIABLES
    function,            \* the ast::Function handed to State::new
    instructions,        \* State.instructions
    instruction_pointer, \* State.instruction_pointer
    vars,                \* State.vars
    function_type,       \* State.function_type
    run_result,          \* what State::run has returned, once it has
    last_step,           \* history: the State before the last step and its result
    steps,               \* history: the number of steps taken
    path,                \* history: the pointer and variables before each step
    eval_input,          \* the evaluator taken alone: its input ...
    eval_output,         \* ... and its result, once evaluated
    render_input,        \* the rendering taken alone: the error and the source ...
    render_output,       \* ... and the rendered text, once written
    interpreter,         \* the State of `interpret` in main: its pointer and variables
    interpret_result,    \* what `interpret` has returned, once it has
    interpret_steps      \* history: the number of steps `interpret` has taken

interp_vars ==
    <<function, instructions, instruction_pointer, vars, function_type, run_result,
      last_step, steps, path>>

eval_state == <<eval_input, eval_output>>

render_state == <<render_input, render_output>>

driver_state == <<interpreter, interpret_result, interpret_steps>>

all_vars == <<interp_vars, eval_state, render_state, driver_state>>

Self == State(instructions, instruction_pointer, vars, function_type)

Running == [done |-> FALSE]

Done(res) == [done |-> TRUE, res |-> res]

\* the call has not returned and never will: the thread unwinds from a panic
Unwinding(msg) == [done |-> FALSE, panic |-> msg]

NoStep == [taken |-> FALSE]

NoEval == [vars |-> EvalVars, expr |-> ExprInt(L(0))]

NoRender == [error |-> without_span("InternalError"), src |-> <<>>]

\* State::new(function)?: the State, or the fault run_fn passes on
Construct(fun) ==
    \E s \in {new(fun)} :
        /\ function = fun
        /\ IF s.ok
           THEN /\ instructions = s.val.instructions
                /\ instruction_pointer = s.val.instruction_pointer
                /\ vars = s.val.vars
                /\ function_type = s.val.function_type
                /\ run_result = Running
           ELSE /\ instructions = <<>>
                /\ instruction_pointer = 0
                /\ vars = << >>
                /\ function_type = fun.fn_type
                /\ run_result = Done(Err(s.err))
        /\ last_step = NoStep
        /\ steps = 0
        /\ path = <<>>
        /\ interpreter = [instruction_pointer |-> instruction_pointer, vars |-> vars]
        /\ interpret_result = run_result
        /\ interpret_steps = 0

Init ==
    /\ \E fun \in Functions : Construct(fun)
    /\ eval_input = NoEval
    /\ eval_output = Running
    /\ render_input = NoRender
    /\ render_output = Running

\* one iteration of the loop of State::run
run ==
    /\ ~run_result.done
    /\ ~IsPanic(run_result)
    /\ steps < Len(instructions) + MaxExtraSteps
    /\ \E s \in step(Self) :
           /\ instruction_pointer' = s.self.instruction_pointer
           /\ vars' = s.self.vars
           /\ run_result' =
                 IF IsPanic(s.res) THEN Unwinding(s.res.panic)
                 ELSE IF ~s.res.ok THEN Done(Err(s.res.err))
                 ELSE IF s.res.val.k = "Return" THEN Done(Ok(s.res.val.value))
                 ELSE run_result
           /\ last_step' = [taken |-> TRUE, instruction_pointer |-> instruction_pointer,
                            vars |-> vars, res |-> s.res]
    /\ steps' = steps + 1
    /\ path' = Append(path, [instruction_pointer |-> instruction_pointer, vars |-> vars])
    /\ UNCHANGED <<function, instructions, function_type, eval_state, render_state,
                   driver_state>>

Next == run

Spec == Init /\ [][Next]_all_vars

InitEval ==
    /\ Construct(Function(<<>>, DeclaredVars, "Transition"))
    /\ eval_input \in EvalInputs
    /\ eval_output = Running
    /\ render_input = NoRender
    /\ render_output = Running

EvalInt ==
    /\ ~eval_output.done
    /\ eval_input.expr.ty = "Int"
    /\ eval_output' = Done(eval_int_expr(eval_input.vars, eval_input.expr.e))
    /\ UNCHANGED <<interp_vars, eval_input, render_state, driver_state>>

EvalCellState ==
    /\ ~eval_output.done
    /\ eval_input.expr.ty = "CellState"
    /\ eval_output' = Done(eval_cell_state_expr(eval_input.vars, eval_input.expr.e))
    /\ UNCHANGED <<interp_vars, eval_input, render_state, driver_state>>

NextEval == EvalInt \/ EvalCellState

SpecEval == InitEval /\ [][NextEval]_all_vars

InitRender ==
    /\ Construct(Function(<<>>, DeclaredVars, "Transition"))
    /\ eval_input = NoEval
    /\ eval_output = Running
    /\ render_input \in RenderInputs
    /\ render_output = Running

\* err.with_source(source_code) written by Display
Render ==
    /\ ~render_output.done
    /\ \E w \in fmt(with_source(render_input.error, render_input.src)) :
           render_output' = Done(w)
    /\ UNCHANGED <<interp_vars, eval_state, render_input, driver_state>>

NextRender == Render

SpecRender == InitRender /\ [][NextRender]_all_vars

InitDisplay ==
    /\ Construct(Function(<<>>, DeclaredVars, "Transition"))
    /\ eval_input = NoEval
    /\ eval_output = Running
    /\ render_input \in DisplayInputs
    /\ render_output = Running

\* a LangErrorWithSource written by Display
Display ==
    /\ ~render_output.done
    /\ \E w \in fmt(render_input.shown) : render_output' = Done(w)
    /\ UNCHANGED <<interp_vars, eval_state, render_input, driver_state>>

NextDisplay == Display

SpecDisplay == InitDisplay /\ [][NextDisplay]_all_vars

\* the State that `interpret` in main holds
InterpreterState ==
    State(instructions, interpreter.instruction_pointer, interpreter.vars, function_type)

\* State::run has returned, or has taken all the steps it is followed for
RunFollowed ==
    run_result.done \/ IsPanic(run_result) \/ steps >= Len(instructions) + MaxExtraSteps

\* one iteration of the loop of `interpret` in main, which is followed for
\* MaxExtraSteps steps more than State::run has taken on the same function;
\* the two loops share nothing, and State::run is followed first
interpret ==
    /\ RunFollowed
    /\ ~interpret_result.done
    /\ ~IsPanic(interpret_result)
    /\ interpret_steps < steps + MaxExtraSteps
    /\ \E s \in step(InterpreterState) :
           /\ interpreter' = [instruction_pointer |-> s.self.instruction_pointer,
                              vars |-> s.self.vars]
           /\ interpret_result' =
                 IF IsPanic(s.res) THEN Unwinding(s.res.panic)
                 ELSE IF ~s.res.ok THEN Done(Err(s.res.err))
                 ELSE IF return_value(s.res.val).some
                 THEN Done(Ok(return_value(s.res.val).v))
                 ELSE interpret_result
    /\ interpret_steps' = interpret_steps + 1
    /\ UNCHANGED <<interp_vars, eval_state, render_state>>

NextInterpret == run \/ interpret

SpecInterpret == Init /\ [][NextInterpret]_all_vars

\* a State made of its public fields: instructions that are flat already
\* and a pointer at the start or at usize::MAX
InitOverflow ==
    /\ \E statements \in OverflowInstructions :
           /\ function = Function(statements, DeclaredVars, "Transition")
           /\ instructions = statements
    /\ instruction_pointer \in {0, usize_MAX}
    /\ vars = [v \in DOMAIN DeclaredVars |-> from_type(DeclaredVars[v]).v]
    /\ function_type = "Transition"
    /\ run_result = Running
    /\ last_step = NoStep
    /\ steps = 0
    /\ path = <<>>
    /\ interpreter = [instruction_pointer |-> instruction_pointer, vars |-> vars]
    /\ interpret_result = Running
    /\ interpret_steps = 0
    /\ eval_input = NoEval
    /\ eval_output = Running
    /\ render_input = NoRender
    /\ render_output = Running

SpecOverflow == InitOverflow /\ [][NextInterpret]_all_vars

(***************************************************************************)
(* Properties of State::new, State::step and State::run (under Spec).      *)
(***************************************************************************)
\* the last step found an instruction of this kind under the pointer
Executed(kind) ==
    /\ last_step.taken
    /\ last_step.instruction_pointer # usize_MAX
    /\ last_step.instruction_pointer < Len(instructions)
    /\ instructions[last_step.instruction_pointer + 1].k = kind

LastInstruction == instructions[last_step.instruction_pointer + 1]

\* the value of the condition of the If the last step executed
LastCondition == eval_int_expr(last_step.vars, LastInstruction.cond_expr)

\* the arm of that If which the condition selects
SelectedArm ==
    IF LastCondition.val # BigZero THEN LastInstruction.if_true
    ELSE LastInstruction.if_false

\* C1: a step that executes a top-level Goto(idx), or an If whose selected
\* arm is the block [Goto(idx)], leaves the program counter at idx + 1; a
\* step that executes the SetVar at position p leaves it at p + 1.
C1_JumpTarget ==
    /\ Executed("Goto") =>
          /\ last_step.res = Ok(Continue)
          /\ instruction_pointer = LastInstruction.idx + 1
    /\ (Executed("If") /\ LastCondition.ok /\ SelectedArm # <<>>) =>
          /\ SelectedArm[1].k = "Goto"
          /\ last_step.res = Ok(Continue)
          /\ instruction_pointer = SelectedArm[1].idx + 1
    /\ (Executed("SetVar") /\ last_step.res.ok) =>
          /\ last_step.res = Ok(Continue)
          /\ instruction_pointer = last_step.instruction_pointer + 1

\* an If has just jumped through the Goto of its selected arm, away from the
\* instruction that follows it
C1_Witness ==
    /\ Executed("If") /\ LastCondition.ok /\ SelectedArm # <<>>
    /\ instruction_pointer = SelectedArm[1].idx + 1
    /\ instruction_pointer > last_step.instruction_pointer + 1

\* a statement with the arms of an If left out
Skeleton(s) == IF s.k = "If" THEN [k |-> "If", cond_expr |-> s.cond_expr] ELSE s

\* the number of statements of a block, those of nested blocks included
RECURSIVE CountStatements(_)
CountStatements(block) ==
    IF block = <<>> THEN 0
    ELSE (IF Head(block).k = "If"
          THEN 1 + CountStatements(Head(block).if_true)
                 + CountStatements(Head(block).if_false)
          ELSE 1)
         + CountStatements(Tail(block))

\* the statements of `body` stand in `ins` from index `start` on, in order
StandsAt(ins, start, body) ==
    /\ start + Len(body) <= Len(ins)
    /\ \A j \in 1..Len(body) : Skeleton(ins[start + j]) = Skeleton(body[j])

\* the top-level Ifs of the function whose two bodies are both non-empty
FullIfs ==
    { i \in 1..Len(function.statements) :
        /\ function.statements[i].k = "If"
        /\ function.statements[i].if_true # <<>>
        /\ function.statements[i].if_false # <<>> }

Constructed == new(function).ok

\* C2: after the flattening done by State::new every statement of the body
\* appears exactly once, and for an If with non-empty true and false bodies
\* each arm of the If, at its original position, is a single Goto to
\* (start of the relocated body) - 1, the bodies standing in body order past
\* the original top-level statements, the true body before the false body.
C2_FlattenRoundTrip ==
    Constructed =>
      /\ Len(instructions) = CountStatements(function.statements)
      /\ \A i \in FullIfs :
            LET s == function.statements[i]
                f == instructions[i]
            IN  /\ Skeleton(f) = Skeleton(s)
                /\ Len(f.if_true) = 1 /\ f.if_true[1].k = "Goto"
                /\ Len(f.if_false) = 1 /\ f.if_false[1].k = "Goto"
                /\ f.if_true[1].idx + 1 >= Len(function.statements)
                /\ f.if_false[1].idx + 1 >= f.if_true[1].idx + 1 + Len(s.if_true)
                /\ StandsAt(instructions, f.if_true[1].idx + 1, s.if_true)
                /\ StandsAt(instructions, f.if_false[1].idx + 1, s.if_false)

\* a function with such an If, followed by another statement, was flattened
C2_Witness ==
    /\ Constructed
    /\ \E i \in FullIfs : i < Len(function.statements)
    /\ Len(instructions) > Len(function.statements)

\* the top-level Ifs of the function with an empty arm
EmptyArmIfs ==
    { i \in 1..Len(function.statements) :
        /\ function.statements[i].k = "If"
        /\ (function.statements[i].if_true = <<>>
            \/ function.statements[i].if_false = <<>>) }

\* C3: flattening leaves an empty arm of an If empty, and a step that
\* executes an If at position p whose selected arm is empty leaves the
\* program counter at p + 1 and changes no variable.
C3_Fallthrough ==
    /\ Constructed =>
          \A i \in EmptyArmIfs :
              /\ instructions[i].k = "If"
              /\ (function.statements[i].if_true = <<>>) = (instructions[i].if_true = <<>>)
              /\ (function.statements[i].if_false = <<>>) = (instructions[i].if_false = <<>>)
    /\ (Executed("If") /\ LastCondition.ok /\ SelectedArm = <<>>) =>
          /\ last_step.res = Ok(Continue)
          /\ instruction_pointer = last_step.instruction_pointer + 1
          /\ vars = last_step.vars

\* an If that is not the first instruction fell through its empty arm
C3_Witness ==
    /\ Executed("If") /\ LastCondition.ok /\ SelectedArm = <<>>
    /\ last_step.instruction_pointer > 0
    /\ instruction_pointer = last_step.instruction_pointer + 1

\* the step ended execution with a value
ReturnedValue ==
    /\ last_step.res.ok
    /\ last_step.res.val.k = "Return"
    /\ last_step.res.val.value.some

Faulted(msg) == ~last_step.res.ok /\ last_step.res.err.msg = msg

LegalReturn ==
    function_type = "Transition" /\ LastInstruction.return_expr.ty = "CellState"

\* C4 as stated: a step that executes Return(expr) ends execution with a
\* value only for a Transition function and a cell-state expression, and
\* faults with an internal error for every other combination.
C4_ReturnLegality_Stated ==
    Executed("Return") =>
      /\ ReturnedValue => LegalReturn
      /\ ~LegalReturn => Faulted("InternalError")

\* C4 (amended): a step that executes Return(expr) ends execution with the
\* evaluated cell-state value only for a Transition function and a
\* cell-state expression; for a Transition function and any other expression
\* it faults with an internal error, and for a Helper function it faults
\* with the Unimplemented error.
C4_ReturnLegality ==
    Executed("Return") =>
      /\ ReturnedValue =>
            /\ LegalReturn
            /\ eval_cell_state_expr(last_step.vars, LastInstruction.return_expr.e)
                 = Ok(last_step.res.val.value.v.c)
      /\ (function_type = "Transition" /\ LastInstruction.return_expr.ty # "CellState")
            => last_step.res = Err(without_span("InternalError"))
      /\ function_type = "Helper" => last_step.res = Err(with_span("Unimplemented"))

\* a Return of a Helper function faulted
C4_Witness ==
    /\ Executed("Return")
    /\ function_type = "Helper"
    /\ LastInstruction.return_expr.ty = "CellState"
    /\ Faulted("Unimplemented")

\* C5: when a step faults, run returns that fault and no value, and the
\* faulting step leaves the program counter and every variable as they were;
\* a fault run returns is the fault of the last step taken (no step follows
\* the faulting one).
C5_FaultAbort ==
    /\ (last_step.taken /\ ~last_step.res.ok) =>
          /\ run_result = Done(Err(last_step.res.err))
          /\ instruction_pointer = last_step.instruction_pointer
          /\ vars = last_step.vars
    /\ (Constructed /\ run_result.done /\ ~run_result.res.ok) =>
          /\ last_step.taken
          /\ last_step.res = Err(run_result.res.err)

\* a SetVar that was not the first instruction faulted while evaluating its
\* expression
C5_Witness ==
    /\ Executed("SetVar")
    /\ last_step.instruction_pointer > 0
    /\ Faulted("DivideByZero")
    /\ run_result.done

(***************************************************************************)
(* Properties of the expression evaluator (under SpecEval).                *)
(***************************************************************************)
Evaluated(ty, kind) ==
    /\ eval_output.done
    /\ eval_input.expr.ty = ty
    /\ eval_input.expr.e.k = kind

Input == eval_input.expr.e

IntValueOf(e) == eval_int_expr(eval_input.vars, e)

\* C6: an integer Div or Rem whose right operand evaluates to 0 faults with
\* the divide-by-zero error whatever the value of its left operand, never
\* with an overflow error and never with a value.
C6_DivisionSafety ==
    (/\ Evaluated("Int", "Op")
     /\ Input.op \in {"Div", "Rem"}
     /\ IntValueOf(Input.lhs).ok
     /\ IntValueOf(Input.rhs) = Ok(BigZero))
    => eval_output.res = Err(with_span("DivideByZero"))

\* the remainder of the minimum integer by zero was evaluated
C6_Witness ==
    /\ Evaluated("Int", "Op")
    /\ Input.op = "Rem"
    /\ IntValueOf(Input.lhs) = Ok(I64Min)
    /\ IntValueOf(Input.rhs) = Ok(BigZero)
    /\ ~eval_output.res.ok

\* the operation overflows on these operand values
Overflows(op, a, b) ==
    CASE op = "Add" -> ~InI64(BigAdd(a, b))
      [] op = "Sub" -> ~InI64(BigSub(a, b))
      [] op = "Mul" -> ~InI64(BigMul(a, b))
      [] OTHER -> FALSE

OverflowKind(op) ==
    CASE op = "Add" -> "IntegerOverflowDuringAddition"
      [] op = "Sub" -> "IntegerOverflowDuringSubtraction"
      [] op = "Mul" -> "IntegerOverflowDuringMultiplication"

\* C7 as stated: negating the minimum integer faults with
\* IntegerOverflowDuringNegation, and an addition, subtraction or
\* multiplication that overflows faults with the overflow kind of its own
\* operation.
C7_OverflowKinds_Stated ==
    /\ (Evaluated("Int", "Neg") /\ IntValueOf(Input.x) = Ok(I64Min))
          => eval_output.res = Err(with_span("IntegerOverflowDuringNegation"))
    /\ (/\ Evaluated("Int", "Op")
        /\ Input.op \in {"Add", "Sub", "Mul"}
        /\ IntValueOf(Input.lhs).ok
        /\ IntValueOf(Input.rhs).ok
        /\ Overflows(Input.op, IntValueOf(Input.lhs).val, IntValueOf(Input.rhs).val))
          => eval_output.res = Err(with_span(OverflowKind(Input.op)))

\* the chain under evaluation: its operands 0..n and their values
Chain == Input.cmp_expr

ChainLen == Len(Chain.comparisons)

Operand(i) == IF i = 0 THEN Chain.initial ELSE Chain.comparisons[i][2]

OperandValue(i) ==
    IF Input.k = "CmpInt" THEN eval_int_expr(eval_input.vars, Operand(i))
    ELSE eval_cell_state_expr(eval_input.vars, Operand(i))

\* a < b, a = b or a > b, for two integers or two cell states
Order(a, b) ==
    IF Input.k = "CmpInt" THEN BigCmp(a, b)
    ELSE IF a < b THEN -1 ELSE IF a > b THEN 1 ELSE 0

\* the i-th comparison, between the values of operands i - 1 and i, is true
ComparisonHolds(i) ==
    LET d == Order(OperandValue(i - 1).val, OperandValue(i).val)
        cmp == Chain.comparisons[i][1]
    IN  CASE cmp = "Eql" -> d = 0
          [] cmp = "Neq" -> d # 0
          [] cmp = "Lt"  -> d < 0
          [] cmp = "Gt"  -> d > 0
          [] cmp = "Lte" -> d <= 0
          [] cmp = "Gte" -> d >= 0

EvaluatedChain ==
    /\ eval_output.done
    /\ eval_input.expr.ty = "Int"
    /\ Input.k \in {"CmpInt", "CmpCellState"}

\* C8: a chain whose operands all evaluate without fault evaluates to 1 when
\* every comparison between adjacent operands is true and to 0 otherwise,
\* the left operand of a comparison being the right operand of the one
\* before; a chain with no pairs evaluates to 1.
C8_ChainValue ==
    (EvaluatedChain /\ \A i \in 0..ChainLen : OperandValue(i).ok)
    => eval_output.res =
          IF \A i \in 1..ChainLen : ComparisonHolds(i) THEN Ok(Big(1)) ELSE Ok(Big(0))

\* a chain of two true comparisons was evaluated to 1 although the second
\* comparison is false of the initial operand
C8_Witness ==
    /\ EvaluatedChain
    /\ ChainLen = 2
    /\ \A i \in 0..ChainLen : OperandValue(i).ok
    /\ eval_output.res = Ok(Big(1))
    /\ Chain.comparisons[2][1] = "Gt"
    /\ Order(OperandValue(0).val, OperandValue(2).val) < 0

\* the operands at which evaluation of the chain stops: a faulting operand,
\* or the right operand of a false comparison
Stops ==
    { i \in 0..ChainLen :
        \/ ~OperandValue(i).ok
        \/ i >= 1 /\ OperandValue(i - 1).ok /\ ~ComparisonHolds(i) }

FirstStop == CHOOSE i \in Stops : \A j \in Stops : i <= j

\* C9: the chain evaluates to 0 at its first false comparison whatever the
\* later operands are, also when one of them would fault; an operand that
\* faults at or before the first false comparison makes the chain fault.
C9_ShortCircuit ==
    (EvaluatedChain /\ Stops # {})
    => eval_output.res =
          IF OperandValue(FirstStop).ok THEN Ok(Big(0)) ELSE OperandValue(FirstStop)

\* a chain was evaluated to 0 at its first comparison, a later operand
\* being a division by zero
C9_Witness ==
    /\ EvaluatedChain
    /\ ChainLen = 2
    /\ Stops # {}
    /\ FirstStop = 1
    /\ OperandValue(1).ok
    /\ ~OperandValue(2).ok
    /\ eval_output.res = Ok(Big(0))

\* C10: FromId(e), e evaluating to the integer v, yields the cell state
\* equal to v when 0 <= v < CELL_STATE_COUNT and faults with
\* CellStateOutOfRange for every other v.
C10_RangeCheck ==
    (Evaluated("CellState", "FromId") /\ IntValueOf(Input.id_expr).ok)
    => LET v == IntValueOf(Input.id_expr).val
       IN  IF \E n \in 0..(CELL_STATE_COUNT - 1) : Big(n) = v
           THEN eval_output.res.ok /\ Big(eval_output.res.val) = v
           ELSE eval_output.res = Err(with_span("CellStateOutOfRange"))

\* the largest valid id was converted
C10_Witness ==
    /\ Evaluated("CellState", "FromId")
    /\ IntValueOf(Input.id_expr) = Ok(Big(CELL_STATE_COUNT - 1))
    /\ eval_output.res = Ok(CELL_STATE_COUNT - 1)

(***************************************************************************)
(* Further properties of State::step and State::run (under Spec).          *)
(***************************************************************************)
\* the value of the expression of a SetVar or Return in the given variables
ExprValue(vs, expr) ==
    LET Wrap(r, ty) ==
            IF ~r.ok THEN r
            ELSE IF ty = "Int" THEN Ok(ValueInt(r.val))
            ELSE Ok(ValueCellState(r.val))
    IN  IF expr.ty = "Int" THEN Wrap(eval_int_expr(vs, expr.e), "Int")
        ELSE Wrap(eval_cell_state_expr(vs, expr.e), "CellState")

\* C11: a successful step on SetVar{name, expr} overwrites only the value of
\* variable name, with the value of expr in the variables before the step;
\* every other variable, the instruction sequence and the function type are
\* unchanged, and the program counter advances by one.
C11_SetVarFrame ==
    (Executed("SetVar") /\ last_step.res.ok) =>
        /\ last_step.res = Ok(Continue)
        /\ DOMAIN vars = DOMAIN last_step.vars
        /\ \A v \in DOMAIN vars \ {LastInstruction.var_name} :
              vars[v] = last_step.vars[v]
        /\ Ok(vars[LastInstruction.var_name])
              = ExprValue(last_step.vars, LastInstruction.value_expr)
        /\ instruction_pointer = last_step.instruction_pointer + 1
        /\ instructions = new(function).val.instructions
        /\ function_type = function.fn_type

\* a SetVar has stored a new value in one variable while the other variable
\* held a value that is not the default of its type
C11_Witness ==
    /\ Executed("SetVar") /\ last_step.res.ok
    /\ vars[LastInstruction.var_name] # last_step.vars[LastInstruction.var_name]
    /\ \E v \in DOMAIN vars \ {LastInstruction.var_name} :
          /\ vars[v] = last_step.vars[v]
          /\ vars[v] # from_type(ty_of(vars[v])).v

\* the last step was taken with the pointer at or past the end of the
\* instruction sequence
PastTheEnd ==
    /\ last_step.taken
    /\ \/ last_step.instruction_pointer >= Len(instructions)
       \/ last_step.instruction_pointer = usize_MAX

\* C12: a step taken with the program counter greater than or equal to the
\* length of the instruction sequence produces Return with no value and
\* changes neither the program counter nor any variable.
C12_PastTheEnd ==
    PastTheEnd =>
        /\ last_step.res = Ok(ExecuteResult_Return(None))
        /\ run_result = Done(Ok(None))
        /\ instruction_pointer = last_step.instruction_pointer
        /\ vars = last_step.vars

\* a jump has carried the pointer beyond the length of a non-empty
\* instruction sequence after a variable was set, and a step was taken there
C12_Witness ==
    /\ PastTheEnd
    /\ last_step.instruction_pointer > Len(instructions)
    /\ Len(instructions) > 0
    /\ \E v \in DOMAIN vars : vars[v] # from_type(ty_of(vars[v])).v

\* the cell state run_fn returns, or its fault, once run has returned
RunFnResult == run_fn(run_result.res)

\* C14: interpreting the transition function whose body is x = 3;
\* y = 2 - 10; y = y - 3; z = -y / x; if (3 * 99 % 2 == 1) { return cell
\* state 10 / 3 * 3 }, flattened by State::new, never faults, takes its
\* sixth step at the Return of the true arm with y = -11 and z = 3, and
\* run_fn returns cell state 9.
C14_Scenario ==
    function = ScenarioFunction =>
        /\ Constructed
        /\ last_step.taken => last_step.res.ok
        /\ steps < 6 => ~run_result.done
        /\ steps <= 6
        /\ run_result.done =>
              /\ Executed("Return")
              /\ instructions[5].k = "If"
              /\ instructions[5].if_true = <<Goto(last_step.instruction_pointer - 1)>>
              /\ vars["x"] = ValueInt(Big(3))
              /\ vars["y"] = ValueInt(Big(-11))
              /\ vars["z"] = ValueInt(Big(3))
              /\ run_result = Done(Ok(Some(ValueCellState(9))))
              /\ RunFnResult = Ok(9)

\* the scenario has run to the Return of the true arm
C14_Witness ==
    /\ function = ScenarioFunction
    /\ run_result.done
    /\ Executed("Return")
    /\ RunFnResult = Ok(9)

\* the program of main itself returns at `become z`, with cell state 3
MainReturnsAtBecomeZ ==
    (function = MainFunction /\ run_result.done) =>
        /\ last_step.instruction_pointer = 4
        /\ RunFnResult = Ok(3)

MainHasReturned == function = MainFunction /\ run_result.done

(***************************************************************************)
(* Properties of the rendering of errors (under SpecRender).               *)
(***************************************************************************)
RenderedText == render_output.res.text

\* the TextPoints of the two ends of the span of the rendered error
StartPoint == textpoint(render_input.src, render_input.error.span.start)

EndPoint == textpoint(render_input.src, render_input.error.span.end)

\* the line of the source text in which the character index idx lies,
\* without the "\n" or the "\r\n" that ends it
LineAt(src, idx) ==
    LET before == { i \in 1..idx : src[i] = "\n" }
        after == { i \in (idx + 1)..Len(src) : src[i] = "\n" } \cup {Len(src) + 1}
        first == IF before = {} THEN 1
                 ELSE 1 + CHOOSE i \in before : \A j \in before : j <= i
        end == CHOOSE i \in after : \A j \in after : i <= j
        last == IF end <= Len(src) /\ end > first /\ src[end - 1] = "\r" THEN end - 2
                ELSE end - 1
    IN  SubSeq(src, first, last)

\* the number of carets the claim gives a span: one per column of its
\* width, and exactly one when its ends lie on different lines
StatedCarets ==
    IF StartPoint.line = EndPoint.line THEN EndPoint.column - StartPoint.column
    ELSE 1

CaretCount(text) == Cardinality({ i \in 1..Len(text) : text[i] = "^" })

StartsWith(text, prefix) ==
    /\ Len(prefix) <= Len(text)
    /\ SubSeq(text, 1, Len(prefix)) = prefix

\* C15 as stated: an error with a span is rendered as the source line, then
\* spaces up to the start column, then one caret per column of the span's
\* width, and exactly one caret at the start column (never none) when the
\* span's start and end lie on different lines, then the message; an error
\* without a span is rendered as the message only.
C15_Rendering_Stated ==
    render_output.done =>
        IF render_input.error.has_span
        THEN /\ StartsWith(RenderedText,
                    LineAt(render_input.src, render_input.error.span.start)
                    \o <<"\n">>
                    \o Repeat(" ", StartPoint.column - 1)
                    \o Repeat("^", StatedCarets))
             /\ CaretCount(RenderedText) = StatedCarets
             /\ RenderedText[Len(RenderedText)] = render_input.error.msg
        ELSE RenderedText = <<render_input.error.msg>>

\* what is rendered for a span whose ends lie on different lines: the line
\* of its start, the spaces, and no caret at all
MultiLineSpanHasNoCaret ==
    (render_output.done /\ render_input.error.has_span
        /\ StartPoint.line # EndPoint.line) =>
        /\ CaretCount(RenderedText) = 0
        /\ RenderedText =
              LineAt(render_input.src, render_input.error.span.start)
              \o <<"\n">> \o Repeat(" ", StartPoint.column - 1) \o Repeat(" ", 3)
              \o <<render_input.error.msg>>

\* the rendering of the other errors is as stated, but for a span that starts
\* behind the final newline of the text, of which only the message is written
SingleLineSpanAsStated ==
    (render_output.done /\ render_input.error.has_span
        /\ StartPoint.line = EndPoint.line) =>
        IF StartPoint.line <= Len(lines(render_input.src))
        THEN C15_Rendering_Stated
        ELSE RenderedText = <<render_input.error.msg>>

\* a block made only of SetVar, If, Return and End, nested blocks included
RECURSIVE GotoFree(_)
GotoFree(block) ==
    \A i \in 1..Len(block) :
        /\ block[i].k # "Goto"
        /\ block[i].k = "If" => GotoFree(block[i].if_true) /\ GotoFree(block[i].if_false)

\* the encoded jump targets of the instruction at position p (counted from 0)
TargetsAt(ins, p) ==
    IF ins[p + 1].k = "Goto" THEN {ins[p + 1].idx}
    ELSE IF ins[p + 1].k = "If"
    THEN { arm[1].idx : arm \in { a \in {ins[p + 1].if_true, ins[p + 1].if_false} :
                                    a # <<>> /\ a[1].k = "Goto" } }
    ELSE {}

\* every encoded target idx satisfies idx + 1 > the position of the
\* instruction that holds it
ForwardTargets(ins) ==
    \A p \in 0..(Len(ins) - 1) : \A idx \in TargetsAt(ins, p) : idx + 1 > p

\* the program counter has grown on every Continue step and run has ended
\* after at most (sequence length + 1) steps
EndsWithinLength ==
    /\ (last_step.taken /\ last_step.res = Ok(Continue)) =>
          instruction_pointer > last_step.instruction_pointer
    /\ steps <= Len(instructions) + 1
    /\ steps = Len(instructions) + 1 => run_result.done

\* C16 as stated: for every instruction sequence produced by flattening a
\* body made only of SetVar, If, Return and End, every encoded Goto target
\* idx satisfies idx + 1 > the position of the instruction holding it, the
\* program counter strictly increases on every Continue step, and run ends
\* (with a value, with no value or with a fault) after at most (sequence
\* length + 1) steps.
C16_Termination_Stated ==
    (Constructed /\ GotoFree(function.statements)) =>
        /\ ForwardTargets(instructions)
        /\ EndsWithinLength

\* what does hold: an instruction sequence whose encoded targets all point
\* forward is run to its end within (sequence length + 1) steps
ForwardTargetsEndWithinLength ==
    (Constructed /\ ForwardTargets(instructions)) => EndsWithinLength

\* and the flattening of a body without Goto whose If arms hold no further If
\* has only such targets
FlatIfs(block) ==
    \A i \in 1..Len(block) :
        block[i].k = "If" =>
            \A arm \in {block[i].if_true, block[i].if_false} :
                \A j \in 1..Len(arm) : arm[j].k # "If"

UnnestedIfsHaveForwardTargets ==
    (Constructed /\ GotoFree(function.statements) /\ FlatIfs(function.statements))
        => ForwardTargets(instructions)

\* the nested If has jumped back to the body of the inner If a second time
NestedIfLoops ==
    /\ function = NestedIfFunction
    /\ steps > Len(instructions) + 1
    /\ ~run_result.done

(***************************************************************************)
(* Further properties of the expression evaluator (under SpecEval).        *)
(***************************************************************************)
BigAbs(a) == IF a.neg THEN BigNeg(a) ELSE a

\* the result of the operation in the integers
ExactResult(op, a, b) ==
    CASE op = "Add" -> BigAdd(a, b)
      [] op = "Sub" -> BigSub(a, b)
      [] op = "Mul" -> BigMul(a, b)
      [] op = "Div" -> BigDiv(a, b)
      [] op = "Rem" -> BigRem(a, b)

\* q is the quotient of a by b truncated toward zero and r the remainder,
\* which has the sign of the dividend a
TruncatedDivision(a, b, q, r) ==
    /\ a = BigAdd(BigMul(q, b), r)
    /\ BigCmp(BigAbs(r), BigAbs(b)) < 0
    /\ r = BigZero \/ r.neg = a.neg

\* an Add, Sub, Mul, Div or Rem has been evaluated whose operands evaluate
\* without fault and whose divisor is not zero
EvaluatedArithmetic ==
    /\ Evaluated("Int", "Op")
    /\ Input.op \in {"Add", "Sub", "Mul", "Div", "Rem"}
    /\ IntValueOf(Input.lhs).ok
    /\ IntValueOf(Input.rhs).ok
    /\ Input.op \in {"Div", "Rem"} => IntValueOf(Input.rhs).val # BigZero

\* C17: for Add, Sub, Mul, Div and Rem whose operands evaluate without fault
\* and whose divisor is nonzero, eval_int_expr yields the exact result
\* (quotient truncated toward zero, remainder with the sign of the dividend)
\* whenever it is representable as a signed 64-bit integer, and faults with
\* the integer-overflow error otherwise, as it does for (minimum integer) / -1
\* and (minimum integer) % -1; it never yields a wrapped value.
C17_ArithmeticResult ==
    EvaluatedArithmetic =>
        LET a == IntValueOf(Input.lhs).val
            b == IntValueOf(Input.rhs).val
            exact == ExactResult(Input.op, a, b)
        IN  /\ Input.op \in {"Div", "Rem"} =>
                  TruncatedDivision(a, b, BigDiv(a, b), BigRem(a, b))
            /\ IF InI64(exact)
                  /\ ~(Input.op \in {"Div", "Rem"} /\ a = I64Min /\ b = Big(-1))
               THEN eval_output.res = Ok(exact)
               ELSE eval_output.res = Err(with_span("IntegerOverflow"))

\* the remainder of the minimum integer by -1 was evaluated, and faulted
C17_Witness ==
    /\ EvaluatedArithmetic
    /\ Input.op = "Rem"
    /\ IntValueOf(Input.lhs) = Ok(I64Min)
    /\ IntValueOf(Input.rhs) = Ok(Big(-1))
    /\ eval_output.res = Err(with_span("IntegerOverflow"))

\* the steps at which a top-level If of the body was executed whose arms hold
\* no further If, its condition evaluating without fault
IfSteps ==
    { k \in 1..Len(path) :
        /\ path[k].instruction_pointer < Len(function.statements)
        /\ function.statements[path[k].instruction_pointer + 1].k = "If"
        /\ FlatIfs(<<function.statements[path[k].instruction_pointer + 1]>>)
        /\ eval_int_expr(path[k].vars,
                         instructions[path[k].instruction_pointer + 1].cond_expr).ok }

\* the arm selected by the If executed at step k, and the other one
SelectedAt(k) ==
    IF eval_int_expr(path[k].vars,
                     instructions[path[k].instruction_pointer + 1].cond_expr).val
       # BigZero
    THEN "if_true" ELSE "if_false"

OtherArm(arm) == IF arm = "if_true" THEN "if_false" ELSE "if_true"

\* the positions (counted from 0) at which the statements of an arm of the
\* top-level If i stand in the flattened sequence
ArmPositions(i, arm) ==
    IF instructions[i][arm] = <<>> THEN {}
    ELSE LET start == instructions[i][arm][1].idx + 1
         IN  start..(start + Len(function.statements[i][arm]) - 1)

\* the program counter after step m
PointerAfter(m) ==
    IF m < Len(path) THEN path[m + 1].instruction_pointer ELSE instruction_pointer

\* step m ended with Continue
Continued(m) == m < Len(path) \/ last_step.res = Ok(Continue)

\* C18 as stated: when the interpreter has executed the flattened form of an
\* If of a body made of SetVar, If, Return and End, no statement of the arm
\* that was not selected is executed afterwards, and once the last statement
\* of the selected arm has been executed without ending the run, the program
\* counter is at the statement that follows the If in the original body.
C18_IfSemantics_Stated ==
    (Constructed /\ GotoFree(function.statements)) =>
        \A k \in IfSteps :
            LET i == path[k].instruction_pointer + 1
                selected == SelectedAt(k)
                last == k + Len(function.statements[i][selected])
            IN  /\ \A m \in (k + 1)..Len(path) :
                      path[m].instruction_pointer \notin ArmPositions(i, OtherArm(selected))
                /\ (/\ function.statements[i][selected] # <<>>
                    /\ i < Len(function.statements)
                    /\ last <= Len(path)
                    /\ Continued(last))
                   => PointerAfter(last) = i

\* what happens instead: the true arm of an If was selected and executed to
\* its last statement, and the next step executed the first statement of
\* the false arm, which stands behind it
TrueArmRunsIntoFalseArm ==
    \E k \in IfSteps :
        LET i == path[k].instruction_pointer + 1
            last == k + Len(function.statements[i].if_true)
        IN  /\ Constructed /\ GotoFree(function.statements)
            /\ SelectedAt(k) = "if_true"
            /\ function.statements[i].if_true # <<>>
            /\ function.statements[i].if_false # <<>>
            /\ last < Len(path)
            /\ path[last + 1].instruction_pointer
                  = instructions[i].if_false[1].idx + 1

\* the last step executed a SetVar whose expression is not of the type of
\* the value its variable holds
MistypedSetVar ==
    /\ Executed("SetVar")
    /\ ty_of(last_step.vars[LastInstruction.var_name]) # LastInstruction.value_expr.ty

\* C19: State::new starts with program counter 0 and every declared variable
\* bound to the default value of its declared type; in every state reached
\* from it by steps the keys of the variable store are exactly the declared
\* variables and each value is of the kind (Int or CellState) of the
\* declared type; a SetVar whose expression type differs from the
\* variable's type faults with an internal error and stores nothing.
C19_StoreTyping ==
    Constructed =>
        /\ steps = 0 =>
              /\ instruction_pointer = 0
              /\ \A v \in DOMAIN function.vars :
                    vars[v] = IF function.vars[v] = "Int" THEN ValueInt(BigZero)
                              ELSE ValueCellState(0)
        /\ DOMAIN vars = DOMAIN function.vars
        /\ \A v \in DOMAIN vars :
              /\ ty_of(vars[v]) = function.vars[v]
              /\ IF function.vars[v] = "Int" THEN DOMAIN vars[v] = {"ty", "i"}
                 ELSE DOMAIN vars[v] = {"ty", "c"}
        /\ MistypedSetVar =>
              /\ last_step.res = Err(without_span("InternalError"))
              /\ vars = last_step.vars
              /\ instruction_pointer = last_step.instruction_pointer

\* a SetVar of a cell-state expression to the integer variable has faulted
\* after a step that stored a value
C19_Witness ==
    /\ Constructed
    /\ MistypedSetVar
    /\ Faulted("InternalError")
    /\ steps > 1
    /\ \E v \in DOMAIN vars : vars[v] # from_type(function.vars[v]).v

CellStates == 0..(CELL_STATE_COUNT - 1)

\* C20: in every state reached from State::new by steps every CellState
\* value held in the variable store lies in [0, CELL_STATE_COUNT), and so
\* does every cell state returned by run_fn.
C20_CellStateRange ==
    Constructed =>
        /\ \A v \in DOMAIN vars :
              ty_of(vars[v]) = "CellState" => vars[v].c \in CellStates
        /\ (run_result.done /\ RunFnResult.ok) => RunFnResult.val \in CellStates

\* a cell-state variable holds the greatest cell state, and the step that
\* would have stored or returned the next greater one has faulted
C20_Witness ==
    /\ Constructed
    /\ \E v \in DOMAIN vars :
          ty_of(vars[v]) = "CellState" /\ vars[v].c = CELL_STATE_COUNT - 1
    /\ Faulted("CellStateOutOfRange")
    /\ run_result.done /\ ~RunFnResult.ok

(***************************************************************************)
(* Properties of run_fn and of the step loop of main (under Spec).         *)
(***************************************************************************)
\* C21: run_fn returns a cell state only when execution ended by a Return
\* statement, and then the cell state of that Return; when execution ends
\* with no value (an End is executed or the program counter is past the
\* last instruction) run_fn returns an internal error without span, never
\* a default or stale cell state.
C21_NoValueResult ==
    run_result.done =>
        /\ RunFnResult.ok =>
              /\ Executed("Return")
              /\ last_step.res
                    = Ok(ExecuteResult_Return(Some(ValueCellState(RunFnResult.val))))
        /\ (last_step.taken /\ (Executed("End") \/ PastTheEnd)) =>
              /\ run_result = Done(Ok(None))
              /\ RunFnResult = Err(without_span("InternalError"))

\* an End was executed while a cell-state variable held a cell state other
\* than the default, and run_fn returned the internal error
C21_Witness ==
    /\ run_result.done
    /\ Executed("End")
    /\ \E v \in DOMAIN vars : ty_of(vars[v]) = "CellState" /\ vars[v].c # 0
    /\ RunFnResult = Err(without_span("InternalError"))

\* C22 as stated: for every function on which State::run returns (with a
\* value, with no value or with a fault) the step loop of `interpret` in
\* main returns as well, stopping as soon as step produces a Return state,
\* also one that carries no value: once it has taken as many steps as
\* State::run took, it has returned.
C22_DriverAgrees_Stated ==
    (run_result.done /\ interpret_steps >= steps) => interpret_result.done

\* what holds: `interpret` returns when State::run returns a value or a
\* fault, after the same number of steps and with that value or fault
InterpretReturnsValuesAndFaults ==
    (/\ run_result.done
     /\ run_result.res.ok => run_result.res.val.some
     /\ interpret_steps >= steps)
    => /\ interpret_steps = steps
       /\ interpret_result.done
       /\ interpret_result.res =
             IF run_result.res.ok THEN Ok(run_result.res.val.v) ELSE run_result.res

\* and when State::run returns no value the State of `interpret` has
\* stopped changing: its next step yields Return with no value again and
\* leaves the State as it is, so the loop goes on for ever
InterpretSpinsOnNoValue ==
    (run_result = Done(Ok(None)) /\ interpret_steps >= steps) =>
        /\ ~interpret_result.done
        /\ step(InterpreterState)
              = {Stepped(InterpreterState, Ok(ExecuteResult_Return(None)))}

\* State::run has returned no value at an End and `interpret` has taken two
\* steps more than it without returning
InterpretHasNotReturned ==
    /\ run_result = Done(Ok(None))
    /\ Executed("End")
    /\ interpret_steps = steps + MaxExtraSteps
    /\ ~interpret_result.done


(***************************************************************************)
(* The overflow of `self.instruction_pointer += 1` (under SpecOverflow).   *)
(***************************************************************************)
\* the last step has jumped to the stored target usize::MAX
JumpedToMax ==
    \/ Executed("Goto") /\ LastInstruction.idx = usize_MAX
    \/ Executed("If") /\ LastCondition.ok /\ SelectedArm = <<Goto(usize_MAX)>>

AddOverflowWraps ==
    /\ JumpedToMax
    /\ last_step.res = Ok(Continue)
    /\ instruction_pointer = 0
    /\ vars = last_step.vars

AddOverflowPanics ==
    /\ JumpedToMax
    /\ last_step.res = Panic("attempt to add with overflow")
    /\ run_result = Unwinding("attempt to add with overflow")

\* a step that jumps to the stored target usize::MAX either leaves the
\* pointer at 0 and continues, or panics; every other step does not panic
AddOverflowWrapsOrPanics ==
    /\ JumpedToMax => AddOverflowWraps \/ AddOverflowPanics
    /\ last_step.taken /\ ~JumpedToMax => ~IsPanic(last_step.res)


(***************************************************************************)
(* The overflow of `start - 1` in Display (under SpecDisplay).             *)
(***************************************************************************)
\* the error shown has a source line and a span that starts at column 0
ShownFromColumnZero ==
    /\ render_output.done
    /\ render_input.shown.source_line.some
    /\ render_input.shown.span.some
    /\ render_input.shown.span.v[1] = 0

SubOverflowPanics ==
    /\ ShownFromColumnZero
    /\ render_output.res =
          Panicked(render_input.shown.source_line.v \o <<"\n">>,
                   "attempt to subtract with overflow")

SubOverflowPads ==
    /\ ShownFromColumnZero
    /\ render_input.shown.span.v[2] # usize_MAX
    /\ render_output.res =
          Padding(render_input.shown.source_line.v \o <<"\n">>, " ", usize_MAX,
                  Written(Repeat("^", render_input.shown.span.v[2]) \o Repeat(" ", 3)
                          \o <<render_input.shown.msg>>))

\* Display of a span that starts at column 0 writes the source line and then
\* panics or goes on to write usize::MAX spaces
SubOverflowPanicsOrPads ==
    ShownFromColumnZero =>
        \/ SubOverflowPanics
        \/ /\ render_output.res.text = render_input.shown.source_line.v \o <<"\n">>
           /\ ~IsPanic(render_output.res.then)
           /\ render_output.res.then # Ok("()")
           /\ render_output.res.then.ch = " "
           /\ render_output.res.then.count = usize_MAX

\* Display returns Ok(()) but for a span that starts at column 0 or has a
\* column of 2^63 or more, and it panics for no span but one that starts at
\* column 0
DisplayReturns ==
    render_output.done =>
        /\ render_output.res.then = Ok("()")
              <=> ~(/\ render_input.shown.source_line.some
                    /\ render_input.shown.span.some
                    /\ \/ render_input.shown.span.v[1] <= 0
                       \/ render_input.shown.span.v[2] < 0)
        /\ IsPanic(render_output.res.then) => ShownFromColumnZero


(***************************************************************************)
(* A step with the pointer at usize::MAX (under SpecOverflow).             *)
(***************************************************************************)
SteppedAtMax == last_step.taken /\ last_step.instruction_pointer = usize_MAX

\* a step taken with the pointer at usize::MAX finds no instruction: it
\* returns Return with no value and leaves the State as it is
StepAtMaxReturnsNone ==
    SteppedAtMax =>
        /\ last_step.res = Ok(ExecuteResult_Return(None))
        /\ run_result = Done(Ok(None))
        /\ instruction_pointer = usize_MAX
        /\ vars = last_step.vars

====
